---------------------------- MODULE Spec2Model ----------------------------
(***************************************************************************)
(* Model of the dinosaur ecological-impact scorer of nuclear.py            *)
(* (predict_dinosaur_impact and the /predict handler that calls it).       *)
(*                                                                         *)
(* The Python code computes with IEEE doubles.  Here every real quantity   *)
(* is a scaled integer; the scale of each quantity is given where it is    *)
(* defined:                                                                *)
(*     length_m, height_m            hundredths of a metre                 *)
(*     masses                        hundredths of a kilogram              *)
(*     results of **                 millionths (SC) or ten-thousandths    *)
(*     indices and impact_score      ten-thousandths of a point            *)
(*     returned score                tenths (round(impact_score, 1))       *)
(*     returned estimated_mass       whole kilograms                       *)
(* x ** e is computed as exp(e * ln x) by series in fixed point; against   *)
(* the doubles of the source the mass agrees to 3 parts in 10000 and the   *)
(* unrounded score to 0.006 points.                                        *)
(***************************************************************************)
EXTENDS Integers, Sequences, FiniteSets, TLC

VARIABLES calls, kept, h2h, search, maps

vars == <<calls, kept, h2h, search, maps>>

(***************************************************************************)
(* Fixed-point arithmetic                                                  *)
(***************************************************************************)
SC == 1000000
LN2 == 693147

Min(a, b) == IF a < b THEN a ELSE b
Max(a, b) == IF a > b THEN a ELSE b

\* floor(a * b / SC) for a, b >= 0 without leaving 32 bits
MulFix(a, b) ==
    LET a1 == a \div 1000
        a0 == a % 1000
        b1 == b \div 1000
        b0 == b % 1000
    IN  a1 * b1 + (a1 * b0 + a0 * b1) \div 1000 + (a0 * b0) \div 1000000

\* floor(a * b / c) for small b and c (c * b within 32 bits), any integer a
MulDiv(a, b, c) == (a \div c) * b + ((a % c) * b) \div c

\* <<quotient, remainder>> of a * 10^d by b, one decimal digit at a time
RECURSIVE DivDecQR(_, _, _)
DivDecQR(a, b, d) ==
    IF d = 0 THEN <<a \div b, a % b>>
    ELSE LET p == DivDecQR(a, b, d - 1)
         IN  <<p[1] * 10 + (p[2] * 10) \div b, (p[2] * 10) % b>>

\* floor(a * 10^d / b)
DivDec(a, b, d) == DivDecQR(a, b, d)[1]

RECURSIVE Log2Floor(_)
Log2Floor(n) == IF n < 2 THEN 0 ELSE 1 + Log2Floor(n \div 2)

\* 1 + z2/3 + z2^2/5 + ... + z2^6/13 (scale SC), from the term 1/k on
RECURSIVE AtanhSeries(_, _)
AtanhSeries(z2, k) ==
    IF k >= 13 THEN SC \div 13
    ELSE SC \div k + MulFix(z2, AtanhSeries(z2, k + 2))

\* ln(n) at scale SC for an integer n >= 1:
\* n = 2^e * f, ln f = 2 atanh((f - 1) / (f + 1))
LnInt(n) ==
    LET e == Log2Floor(n)
        p == 2 ^ e
        z == DivDec(n - p, n + p, 6)
    IN  2 * MulFix(z, AtanhSeries(MulFix(z, z), 1)) + e * LN2

\* exp(r) at scale SC for 0 <= r < ln 2: Taylor series in Horner form
RECURSIVE ExpSeries(_, _)
ExpSeries(r, j) ==
    IF j > 10 THEN SC
    ELSE SC + MulFix(r, ExpSeries(r, j + 1)) \div j

\* exp(y) for y at scale SC (any sign); the result has scale SC / k
Exp(y, k) ==
    LET n == y \div LN2
        m == ExpSeries(y - n * LN2, 1)
    IN  IF n >= 0 THEN (m \div k) * (2 ^ n) + ((m % k) * (2 ^ n)) \div k
        ELSE IF n < -20 THEN 0
        ELSE m \div (k * (2 ^ (0 - n)))

\* (num / den) ** (e100 / 100) for e100 > 0; the result has scale SC / k
Pow(num, den, e100, k) ==
    IF num = 0 THEN 0
    ELSE Exp(MulDiv(LnInt(num) - LnInt(den), e100, 100), k)

\* Python round(): to the nearest multiple of unit, ties to the even one
Round(x, unit) ==
    LET q == x \div unit
        r == x % unit
    IN  IF 2 * r < unit THEN q
        ELSE IF 2 * r > unit THEN q + 1
        ELSE IF q % 2 = 0 THEN q ELSE q + 1

(***************************************************************************)
(* Lookup tables of predict_dinosaur_impact                                *)
(***************************************************************************)
\* dict.get(key, default)
Get(table, key, default) == IF key \in DOMAIN table THEN table[key] ELSE default

\* body type -> <<multiplier (tenths), femur exponent, height exponent
\* (hundredths)>>
mass_scaling ==
    [t \in {"sauropod", "large theropod", "small theropod", "ceratopsian",
            "armoured dinosaur", "euornithopod"} |->
        CASE t = "sauropod" -> <<24, 260, 40>>
          [] t = "large theropod" -> <<32, 270, 60>>
          [] t = "small theropod" -> <<18, 250, 50>>
          [] t = "ceratopsian" -> <<28, 260, 55>>
          [] t = "armoured dinosaur" -> <<30, 265, 50>>
          [] t = "euornithopod" -> <<22, 255, 50>>]

\* the scaling of small theropod as the default
default_scaling_small_theropod == <<18, 250, 50>>

default_scaling == <<25, 260, 50>>

\* diet -> metabolic multiplier (tenths)
diet_metabolic_factors ==
    [d \in {"carnivorous", "herbivorous", "omnivorous", "unknown"} |->
        CASE d = "carnivorous" -> 28
          [] d = "herbivorous" -> 10
          [] d = "omnivorous" -> 18
          [] d = "unknown" -> 15]

\* the factor of 'Late Cretaceous' written 0.58 instead of 0.85
period_factors_digits_swapped ==
    [p \in {"Late Triassic", "Early Jurassic", "Mid Jurassic", "Late Jurassic",
            "Early Cretaceous", "Late Cretaceous"} |->
        CASE p = "Late Triassic" -> 120
          [] p = "Early Jurassic" -> 110
          [] p = "Mid Jurassic" -> 100
          [] p = "Late Jurassic" -> 90
          [] p = "Early Cretaceous" -> 95
          [] p = "Late Cretaceous" -> 58]

\* period -> ecological context (hundredths)
period_factors ==
    [p \in {"Late Triassic", "Early Jurassic", "Mid Jurassic", "Late Jurassic",
            "Early Cretaceous", "Late Cretaceous"} |->
        CASE p = "Late Triassic" -> 120
          [] p = "Early Jurassic" -> 110
          [] p = "Mid Jurassic" -> 100
          [] p = "Late Jurassic" -> 90
          [] p = "Early Cretaceous" -> 95
          [] p = "Late Cretaceous" -> 85]

(***************************************************************************)
(* STEP 1: mass estimation (masses in hundredths of a kilogram)            *)
(***************************************************************************)
\* length_m * 0.08, in ten-thousandths of a metre
estimated_femur_circ(length_m) == length_m * 8

\* the scaling of the body type of the last response, cached at module level
AllometricMassCached(length_m, height_m, dino_type) ==
    LET t == IF kept.result.category = "" THEN dino_type ELSE kept.args.dino_type
        s == Get(mass_scaling, t, default_scaling)
        femur == Pow(estimated_femur_circ(length_m), 10000, s[2], 1)
        height == Pow(height_m, 100, s[3], 1)
    IN  MulDiv(MulFix(femur, height), s[1], 100)

\* c * (femur ** a) * (height ** b) * 1000
AllometricMass(length_m, height_m, dino_type) ==
    LET s == Get(mass_scaling, dino_type, default_scaling)
        femur == Pow(estimated_femur_circ(length_m), 10000, s[2], 1)
        height == Pow(height_m, 100, s[3], 1)
    IN  MulDiv(MulFix(femur, height), s[1], 100)

\* the second length test made with if instead of elif
SizeCorrectionStacked(mass, length_m, dino_type) ==
    IF dino_type = "sauropod"
    THEN LET m1 == IF length_m > 2500 THEN (mass * 13) \div 10 ELSE mass
         IN  IF length_m > 2000 THEN (m1 * 11) \div 10 ELSE m1
    ELSE mass

\* the super-giant bonus divides instead of multiplying
SizeCorrectionDivides(mass, length_m, dino_type) ==
    IF dino_type = "sauropod"
    THEN IF length_m > 2500 THEN (mass * 10) \div 13
         ELSE IF length_m > 2000 THEN (mass * 11) \div 10
         ELSE mass
    ELSE mass

\* the length bonus inside the sauropod branch
SizeCorrection(mass, length_m, dino_type) ==
    IF dino_type = "sauropod"
    THEN IF length_m > 2500 THEN (mass * 13) \div 10
         ELSE IF length_m > 2000 THEN (mass * 11) \div 10
         ELSE mass
    ELSE mass

\* a hard cap at 50000 kg instead of the compression with 0.3
CompressMassCapped(mass) ==
    IF mass > 5000000 THEN 5000000
    ELSE IF mass > 3000000 THEN 3000000 + ((mass - 3000000) * 6) \div 10
    ELSE mass

\* the compression above 50000 kg anchored at 30000 kg like the one below
CompressMassContinuous(mass) ==
    IF mass > 5000000 THEN 4200000 + ((mass - 5000000) * 3) \div 10
    ELSE IF mass > 3000000 THEN 3000000 + ((mass - 3000000) * 6) \div 10
    ELSE mass

\* the second compression tested with if instead of elif
CompressMassStacked(mass) ==
    LET m1 == IF mass > 5000000 THEN 5000000 + ((mass - 5000000) * 3) \div 10
              ELSE mass
    IN  IF m1 > 3000000 THEN 3000000 + ((m1 - 3000000) * 6) \div 10 ELSE m1

\* square-cube law constraints for mega-dinosaurs
CompressMass(mass) ==
    IF mass > 5000000 THEN 5000000 + ((mass - 5000000) * 3) \div 10
    ELSE IF mass > 3000000 THEN 3000000 + ((mass - 3000000) * 6) \div 10
    ELSE mass

\* the floor assigns 0 instead of 50
FloorMassZero(mass) == IF mass < 5000 THEN 0 ELSE mass

\* the floor left out
FloorMassMissing(mass) == mass

\* minimum realistic mass
FloorMass(mass) == IF mass < 5000 THEN 5000 ELSE mass

base_mass(length_m, height_m, dino_type) ==
    SizeCorrection(AllometricMass(length_m, height_m, dino_type),
                   length_m, dino_type)

estimated_mass_kg(length_m, height_m, dino_type) ==
    FloorMass(CompressMass(base_mass(length_m, height_m, dino_type)))


(***************************************************************************)
(* The steps of predict_dinosaur_impact on the frame f of one call          *)
(***************************************************************************)
Raise(f) == [f EXCEPT !.pc = "raised"]

\* lines 76-85 on the base mass that lines 41-73 have computed; the field
\* base_mass keeps that value, which the code overwrites in place
ClampStep(f) ==
    [f EXCEPT !.estimated_mass_kg = FloorMass(CompressMass(f.base_mass)),
              !.pc = "metabolic"]

MassEstimationStep(f) ==
    ClampStep([f EXCEPT !.base_mass =
                            base_mass(f.length_m, f.height_m, f.dino_type)])

\* the herbivore baseline 1.0 as the default of the lookup
metabolic_demand_default_baseline(mass, diet) ==
    MulDiv(Pow(mass, 100, 75, 100), Get(diet_metabolic_factors, diet, 10), 10)

\* STEP 2: basal_metabolic_rate * diet factor (ten-thousandths)
metabolic_demand(mass, diet) ==
    MulDiv(Pow(mass, 100, 75, 100), Get(diet_metabolic_factors, diet, 15), 10)

\* diet_metabolic_factors[diet] in place of .get(diet, 1.5): KeyError
MetabolicDemandStepSubscript(f) ==
    IF f.diet \in DOMAIN diet_metabolic_factors
    THEN [f EXCEPT !.metabolic_demand =
                       metabolic_demand(f.estimated_mass_kg, f.diet),
                   !.pc = "habitat"]
    ELSE Raise(f)

MetabolicDemandStep(f) ==
    [f EXCEPT !.metabolic_demand = metabolic_demand(f.estimated_mass_kg, f.diet),
              !.pc = "habitat"]

\* STEP 3: home range factor (ten-thousandths), competition intensity (tenths)
home_range_factor(mass, diet) ==
    IF diet = "carnivorous" THEN MulDiv(Pow(mass, 100, 75, 100), 2, 100)
    ELSE IF diet = "herbivorous" THEN MulDiv(Pow(mass, 100, 65, 100), 8, 1000)
    ELSE MulDiv(Pow(mass, 100, 70, 100), 15, 1000)

\* a fourth branch that gives omnivores an intensity of their own
competition_intensity_omnivore(diet) ==
    IF diet = "carnivorous" THEN 35
    ELSE IF diet = "herbivorous" THEN 18
    ELSE IF diet = "omnivorous" THEN 30
    ELSE 25

competition_intensity(diet) ==
    IF diet = "carnivorous" THEN 35
    ELSE IF diet = "herbivorous" THEN 18
    ELSE 25

HabitatImpactStep(f) ==
    [f EXCEPT !.home_range_factor = home_range_factor(f.estimated_mass_kg, f.diet),
              !.competition_intensity = competition_intensity(f.diet),
              !.pc = "capacity"]

\* the thresholds compared with >= instead of >
CapacityNumeratorInclusive(mass) ==
    IF mass >= 2000000 THEN 2000
    ELSE IF mass >= 1000000 THEN 3000
    ELSE IF mass >= 500000 THEN 4000
    ELSE IF mass >= 100000 THEN 5000
    ELSE 6000

\* STEP 4: numerator of the carrying capacity by mass bucket
CapacityNumerator(mass) ==
    IF mass > 2000000 THEN 2000
    ELSE IF mass > 1000000 THEN 3000
    ELSE IF mass > 500000 THEN 4000
    ELSE IF mass > 100000 THEN 5000
    ELSE 6000

\* numerator / mass ** 0.6 (hundred-thousandths); a zero divisor raises
CarryingCapacityStep(f) ==
    LET divisor == Pow(f.estimated_mass_kg, 100, 60, 100)
    IN  IF divisor = 0 THEN Raise(f)
        ELSE [f EXCEPT !.carrying_capacity =
                           DivDec(CapacityNumerator(f.estimated_mass_kg) * 10000,
                                  divisor, 5),
                       !.pc = "niche"]

\* small theropod listed with 2.0 and another value in the final else
niche_breadth_other_default(dino_type) ==
    IF dino_type = "sauropod" THEN 28
    ELSE IF dino_type = "large theropod" THEN 35
    ELSE IF dino_type = "ceratopsian" THEN 22
    ELSE IF dino_type = "armoured dinosaur" THEN 18
    ELSE IF dino_type = "euornithopod" THEN 24
    ELSE IF dino_type = "small theropod" THEN 20
    ELSE 25

\* STEP 5: niche breadth (tenths)
niche_breadth(dino_type) ==
    IF dino_type = "sauropod" THEN 28
    ELSE IF dino_type = "large theropod" THEN 35
    ELSE IF dino_type = "ceratopsian" THEN 22
    ELSE IF dino_type = "armoured dinosaur" THEN 18
    ELSE IF dino_type = "euornithopod" THEN 24
    ELSE 20

NicheBreadthStep(f) ==
    [f EXCEPT !.niche_breadth = niche_breadth(f.dino_type), !.pc = "temporal"]

\* the period looked up without regard to case
ecological_context_any_case(f) ==
    IF f.geological_period = "late cretaceous" THEN 85
    ELSE Get(period_factors, f.geological_period, 100)

\* STEP 6: temporal ecological context (hundredths)
ecological_context(f) == Get(period_factors, f.geological_period, 100)

TemporalContextStep(f) ==
    [f EXCEPT !.ecological_context = ecological_context(f), !.pc = "score"]

\* STEP 7: the four capped indices and the clamped score (ten-thousandths)
resource_index(f) ==
    Min(300000, MulDiv(f.metabolic_demand, f.ecological_context, 1000000))

habitat_index(f) ==
    Min(250000, MulDiv(f.home_range_factor, f.niche_breadth, 10000))

\* competition_intensity * (1 / carrying_capacity) * 1000
competition_index(f) ==
    Min(250000, f.competition_intensity * DivDec(100000, f.carrying_capacity, 6))

\* the temporal term weighted by the time span of the species
stability_index_by_span(f) ==
    Min(200000, f.niche_breadth * 5000
                + (f.ecological_context * 100) * (f.start_time_mya - f.end_time_mya))

stability_index(f) ==
    Min(200000, f.niche_breadth * 5000 + f.ecological_context * 1000)

\* the clamp applied to the raw sum, before the multiplication by 1.2
impact_score_clamped_first(raw_impact) ==
    (Min(1000000, Max(50000, raw_impact)) * 12) \div 10

impact_score(raw_impact) == Min(1000000, Max(50000, (raw_impact * 12) \div 10))

\* the min() and max() of step 7 left out
ImpactScoreStepUnclamped(f) ==
    IF f.carrying_capacity = 0 THEN Raise(f)
    ELSE LET resource == MulDiv(f.metabolic_demand, f.ecological_context, 1000000)
             habitat == (f.home_range_factor * f.niche_breadth) \div 10000
             competition ==
                 f.competition_intensity * DivDec(100000, f.carrying_capacity, 6)
             stability == f.niche_breadth * 5000 + f.ecological_context * 1000
         IN  [f EXCEPT !.resource_index = resource,
                       !.habitat_index = habitat,
                       !.competition_index = competition,
                       !.stability_index = stability,
                       !.impact_score =
                           ((resource + habitat + competition + stability) * 12)
                               \div 10,
                       !.pc = "category"]

ImpactScoreStep(f) ==
    IF f.carrying_capacity = 0 THEN Raise(f)
    ELSE [f EXCEPT !.resource_index = resource_index(f),
                   !.habitat_index = habitat_index(f),
                   !.competition_index = competition_index(f),
                   !.stability_index = stability_index(f),
                   !.impact_score =
                       impact_score(resource_index(f) + habitat_index(f)
                                    + competition_index(f) + stability_index(f)),
                   !.pc = "category"]

\* the two highest tiers given the same color
CategorizeSharedColor(score) ==
    IF score < 200000 THEN <<"Minimal Impact", "green circle", "#00ff88">>
    ELSE IF score < 400000 THEN <<"Low Impact", "yellow circle", "#ffaa00">>
    ELSE IF score < 650000 THEN <<"Moderate Impact", "orange circle", "#ff6600">>
    ELSE IF score < 850000 THEN <<"High Impact", "red circle", "#ff0000">>
    ELSE <<"Extreme Impact", "skull", "#ff0000">>

\* the thresholds compared with <= instead of <
CategorizeInclusive(score) ==
    IF score <= 200000 THEN <<"Minimal Impact", "green circle", "#00ff88">>
    ELSE IF score <= 400000 THEN <<"Low Impact", "yellow circle", "#ffaa00">>
    ELSE IF score <= 650000 THEN <<"Moderate Impact", "orange circle", "#ff6600">>
    ELSE IF score <= 850000 THEN <<"High Impact", "red circle", "#ff4400">>
    ELSE <<"Extreme Impact", "skull", "#ff0000">>

\* CATEGORIZATION: <<category, emoji, color>> of a score
Categorize(score) ==
    IF score < 200000 THEN <<"Minimal Impact", "green circle", "#00ff88">>
    ELSE IF score < 400000 THEN <<"Low Impact", "yellow circle", "#ffaa00">>
    ELSE IF score < 650000 THEN <<"Moderate Impact", "orange circle", "#ff6600">>
    ELSE IF score < 850000 THEN <<"High Impact", "red circle", "#ff4400">>
    ELSE <<"Extreme Impact", "skull", "#ff0000">>

CategorizationStep(f) ==
    LET c == Categorize(f.impact_score)
    IN  [f EXCEPT !.category = c[1], !.emoji = c[2], !.color = c[3],
                  !.pc = "return"]

\* the returned dictionary
Result(f) ==
    [score |-> Round(f.impact_score, 1000),
     category |-> f.category,
     emoji |-> f.emoji,
     color |-> f.color,
     estimated_mass |-> Round(f.estimated_mass_kg, 100)]

ReturnStep(f) == [f EXCEPT !.result = Result(f), !.pc = "done"]

(***************************************************************************)
(* The main page: the tier that updateSummaryText words its explanation    *)
(* for, chosen from result.score (tenths), named by its category           *)
(***************************************************************************)
updateSummaryText(result) ==
    IF result.score < 200 THEN "Minimal Impact"
    ELSE IF result.score < 400 THEN "Low Impact"
    ELSE IF result.score < 650 THEN "Moderate Impact"
    ELSE IF result.score < 850 THEN "High Impact"
    ELSE "Extreme Impact"

(***************************************************************************)
(* Requests: the arguments /predict passes to predict_dinosaur_impact      *)
(***************************************************************************)
NumMassSteps == 60
NumClampSteps == 16
MaxSearches == 2
MaxPredictions == 1
MaxRecords == 3
MaxFeatures == 3
NumCalls == 2
NumLengthSteps == 5
NumHeightSteps == 2

Slots == 1 .. NumCalls

\* lengths and heights in hundredths of a metre: a grid of 10 m steps and
\* the values at which the code changes branch
Lengths ==
    {1000 * i : i \in 1 .. NumLengthSteps}
        \cup {1, 50, 200, 1200, 2001, 2100, 2500, 2501, 2600}

Heights == {1000 * i : i \in 1 .. NumHeightSteps} \cup {50, 100, 400, 1200}

Diets == {"carnivorous", "herbivorous", "omnivorous", "unknown", "Carnivorous"}

DinoTypes ==
    {"sauropod", "large theropod", "small theropod", "ceratopsian",
     "armoured dinosaur", "euornithopod", "pterosaur"}

Periods ==
    {"Late Triassic", "Early Jurassic", "Mid Jurassic", "Late Jurassic",
     "Early Cretaceous", "Late Cretaceous", "late cretaceous", "Permian"}

\* <<start_time_mya, end_time_mya>>
TimeSpans == {<<100, 95>>}

Args(ls, hs, ds, ts, ps, spans) ==
    {[length_m |-> l, height_m |-> h, diet |-> d, dino_type |-> t,
      geological_period |-> p, start_time_mya |-> sp[1], end_time_mya |-> sp[2]] :
        l \in ls, h \in hs, d \in ds, t \in ts, p \in ps, sp \in spans}

AllArgs == Args(Lengths, Heights, Diets, DinoTypes, Periods, TimeSpans)

\* the inputs of the interleaved calls: two specimens, each with two time spans
ConcArgs ==
    Args({1200}, {400}, {"carnivorous"}, {"large theropod"},
         {"Late Cretaceous"}, {<<100, 95>>, <<68, 66>>})
    \cup Args({2100}, {1200}, {"herbivorous"}, {"sauropod"},
              {"Late Jurassic"}, {<<100, 95>>, <<155, 145>>})

ArgsOf(f) ==
    [length_m |-> f.length_m, height_m |-> f.height_m, diet |-> f.diet,
     dino_type |-> f.dino_type, geological_period |-> f.geological_period,
     start_time_mya |-> f.start_time_mya, end_time_mya |-> f.end_time_mya]

NoResult == [score |-> 0, category |-> "", emoji |-> "", color |-> "",
             estimated_mass |-> 0]

\* the frame of a call that has bound its parameters and nothing else
Frame(a, pc) ==
    [pc |-> pc,
     length_m |-> a.length_m, height_m |-> a.height_m, diet |-> a.diet,
     dino_type |-> a.dino_type, geological_period |-> a.geological_period,
     start_time_mya |-> a.start_time_mya, end_time_mya |-> a.end_time_mya,
     base_mass |-> 0, estimated_mass_kg |-> 0, metabolic_demand |-> 0,
     home_range_factor |-> 0,
     competition_intensity |-> 0, carrying_capacity |-> 0, niche_breadth |-> 0,
     ecological_context |-> 0, resource_index |-> 0, habitat_index |-> 0,
     competition_index |-> 0, stability_index |-> 0, impact_score |-> 0,
     category |-> "", emoji |-> "", color |-> "", result |-> NoResult]

NoArgs ==
    [length_m |-> 0, height_m |-> 0, diet |-> "", dino_type |-> "",
     geological_period |-> "", start_time_mya |-> 0, end_time_mya |-> 0]

Idle == Frame(NoArgs, "idle")

NoneKept == [args |-> NoArgs, result |-> NoResult]

\* estimated_mass_kg kept in a module-level variable that all calls share
StoreShared(s, f) ==
    calls' = [t \in Slots |->
                 IF t = s THEN f
                 ELSE IF f.estimated_mass_kg > 0 /\ calls[t].estimated_mass_kg > 0
                 THEN [calls[t] EXCEPT !.estimated_mass_kg = f.estimated_mass_kg]
                 ELSE calls[t]]

\* the locals of a call live in the frame of that call
Store(s, f) == calls' = [calls EXCEPT ![s] = f]

(***************************************************************************)
(* The pages and the other routes, as they are after loading               *)
(***************************************************************************)
\* the form of one fighter of the head-to-head page
TRexForm ==
    [name |-> "Tyrannosaurus Rex", length |-> 1200, height |-> 400,
     diet |-> "carnivorous", type |-> "large theropod",
     period |-> "Late Cretaceous"]

BrontosaurusForm ==
    [name |-> "Brontosaurus", length |-> 2100, height |-> 1200,
     diet |-> "herbivorous", type |-> "sauropod", period |-> "Late Jurassic"]

NoCompare == [winner |-> ""]

\* the head-to-head page: the two forms with their default values, the
\* BATTLE button, the /compare exchange under way, the class lists of the
\* two fighter panels and the results section; battles counts the battles
\* started and last_winner is the winner field of the last response shown
H2HLoaded ==
    [f1 |-> TRexForm, f2 |-> BrontosaurusForm, disabled |-> FALSE,
     request |-> NoCompare, response |-> NoCompare,
     panel1 |-> {}, panel2 |-> {}, shown |-> FALSE, winner_text |-> "",
     battles |-> 0, last_winner |-> ""]

\* the main page: the name field of the form, the search input, the search
\* button, the /dinosaur-info requests under way, the searches waiting for
\* a timer, the info panel (query is the name its content was asked for),
\* the /predict exchange, the prediction counter and the results panel;
\* issued counts the searches sent and last_name is the name of the last one
SearchLoaded ==
    [name |-> "Tyrannosaurus Rex", input |-> "", disabled |-> FALSE,
     inflight |-> {}, load_timer |-> TRUE, predict_timers |-> 0,
     panel |-> [kind |-> "none", query |-> "", name |-> ""],
     predicting |-> FALSE, predictions |-> 0, prediction |-> NoResult,
     summary |-> "", issued |-> 0, last_name |-> ""]

\* /maps/api/country-fossil-counts between two requests
NoMetadata ==
    [sent |-> FALSE, total_fossils |-> 0, countries_with_data |-> 0]

MapsIdle ==
    [pc |-> "idle", lived_in |-> <<>>, features |-> <<>>, count |-> <<>>,
     total_fossils |-> 0, countries_with_data |-> 0, metadata |-> NoMetadata]

PagesLoaded == h2h = H2HLoaded /\ search = SearchLoaded /\ maps = MapsIdle

Init == calls = [s \in Slots |-> Idle] /\ kept = NoneKept /\ PagesLoaded

\* /predict: parse the request and call the scorer
Call(s) ==
    /\ calls[s].pc = "idle"
    /\ \E a \in AllArgs : Store(s, Frame(a, "mass"))
    /\ UNCHANGED <<kept, h2h, search, maps>>

CallConc(s) ==
    /\ calls[s].pc = "idle"
    /\ \E a \in ConcArgs : Store(s, Frame(a, "mass"))
    /\ UNCHANGED <<kept, h2h, search, maps>>

MassEstimation(s) ==
    /\ calls[s].pc = "mass"
    /\ Store(s, MassEstimationStep(calls[s]))
    /\ UNCHANGED <<kept, h2h, search, maps>>

MetabolicDemand(s) ==
    /\ calls[s].pc = "metabolic"
    /\ Store(s, MetabolicDemandStep(calls[s]))
    /\ UNCHANGED <<kept, h2h, search, maps>>

HabitatImpact(s) ==
    /\ calls[s].pc = "habitat"
    /\ Store(s, HabitatImpactStep(calls[s]))
    /\ UNCHANGED <<kept, h2h, search, maps>>

CarryingCapacity(s) ==
    /\ calls[s].pc = "capacity"
    /\ Store(s, CarryingCapacityStep(calls[s]))
    /\ UNCHANGED <<kept, h2h, search, maps>>

NicheBreadth(s) ==
    /\ calls[s].pc = "niche"
    /\ Store(s, NicheBreadthStep(calls[s]))
    /\ UNCHANGED <<kept, h2h, search, maps>>

TemporalContext(s) ==
    /\ calls[s].pc = "temporal"
    /\ Store(s, TemporalContextStep(calls[s]))
    /\ UNCHANGED <<kept, h2h, search, maps>>

ImpactScore(s) ==
    /\ calls[s].pc = "score"
    /\ Store(s, ImpactScoreStep(calls[s]))
    /\ UNCHANGED <<kept, h2h, search, maps>>

Categorization(s) ==
    /\ calls[s].pc = "category"
    /\ Store(s, CategorizationStep(calls[s]))
    /\ UNCHANGED <<kept, h2h, search, maps>>

\* return jsonify(result)
Return(s) ==
    /\ calls[s].pc = "return"
    /\ Store(s, ReturnStep(calls[s]))
    /\ UNCHANGED <<kept, h2h, search, maps>>

\* the same, with a client that keeps the response to compare it with later ones
ReturnKept(s) ==
    /\ calls[s].pc = "return"
    /\ Store(s, ReturnStep(calls[s]))
    /\ kept' = [args |-> ArgsOf(calls[s]), result |-> Result(calls[s])]
    /\ UNCHANGED <<h2h, search, maps>>

\* the second half of step 1 alone
Clamp(s) ==
    /\ calls[s].pc = "clamp"
    /\ Store(s, ClampStep(calls[s]))
    /\ UNCHANGED <<kept, h2h, search, maps>>

\* the response is sent and the frame of the call is gone
Respond(s) ==
    /\ calls[s].pc = "done"
    /\ Store(s, Idle)
    /\ UNCHANGED <<kept, h2h, search, maps>>

\* one request at a time, over the whole input grid
Next ==
    \/ Call(1)
    \/ MassEstimation(1)
    \/ MetabolicDemand(1)
    \/ HabitatImpact(1)
    \/ CarryingCapacity(1)
    \/ NicheBreadth(1)
    \/ TemporalContext(1)
    \/ ImpactScore(1)
    \/ Categorization(1)
    \/ Return(1)
    \/ Respond(1)

Spec == Init /\ [][Next]_vars

\* NumCalls requests served at once, their steps interleaved
NextConc ==
    \E s \in Slots :
        \/ CallConc(s)
        \/ MassEstimation(s)
        \/ MetabolicDemand(s)
        \/ HabitatImpact(s)
        \/ CarryingCapacity(s)
        \/ NicheBreadth(s)
        \/ TemporalContext(s)
        \/ ImpactScore(s)
        \/ Categorization(s)
        \/ Return(s)
        \/ ReturnKept(s)
        \/ Respond(s)

SpecConc == Init /\ [][NextConc]_vars

\* one request at a time over every diet, body type and period, for a
\* small, a medium and a large specimen and for one of 4.8 m, whose score
\* as a herbivorous large theropod lies just below 40
TableArgs == Args({200, 480, 1200, 2600}, {400, 1200}, Diets, DinoTypes,
                  Periods, TimeSpans)

CallTables(s) ==
    /\ calls[s].pc = "idle"
    /\ \E a \in TableArgs : Store(s, Frame(a, "mass"))
    /\ UNCHANGED <<kept, h2h, search, maps>>

NextTables ==
    \/ CallTables(1)
    \/ MassEstimation(1)
    \/ MetabolicDemand(1)
    \/ HabitatImpact(1)
    \/ CarryingCapacity(1)
    \/ NicheBreadth(1)
    \/ TemporalContext(1)
    \/ ImpactScore(1)
    \/ Categorization(1)
    \/ Return(1)
    \/ Respond(1)

SpecTables == Init /\ [][NextTables]_vars

(***************************************************************************)
(* The categorization step alone, over every score the clamp can produce   *)
(***************************************************************************)
\* every tenth of a point in [5, 100], and the values just below a threshold
ScoreGrid ==
    {1000 * i : i \in 50 .. 1000} \cup {199999, 399999, 649999, 849999}

TRex ==
    [length_m |-> 1200, height_m |-> 400, diet |-> "carnivorous",
     dino_type |-> "large theropod", geological_period |-> "Late Cretaceous",
     start_time_mya |-> 100, end_time_mya |-> 95]

InitCategorize ==
    /\ \E x \in ScoreGrid :
           calls = [s \in Slots |->
                       IF s = 1
                       THEN [Frame(TRex, "category") EXCEPT !.impact_score = x]
                       ELSE Idle]
    /\ kept = NoneKept
    /\ PagesLoaded

NextCategorize == Categorization(1) \/ Return(1)

SpecCategorize == InitCategorize /\ [][NextCategorize]_vars

(***************************************************************************)
(* Steps 4 to 7 alone, entered with a grid of masses: the value that lines  *)
(* 68-85 leave in estimated_mass_kg for a base mass every 500 kg up to      *)
(* 30 t, for the masses on and next to the thresholds of step 4, for one   *)
(* below the floor and for two above the compression thresholds.           *)
(***************************************************************************)
BaseMassGrid ==
    {50000 * i : i \in 1 .. NumMassSteps}
        \cup {1000, 5000, 3500000, 6000000}
        \cup {t + d : t \in {100000, 500000, 1000000, 2000000}, d \in {-1, 0, 1}}

MassGrid == {FloorMass(CompressMass(b)) : b \in BaseMassGrid}

InitCapacity ==
    /\ \E b \in BaseMassGrid :
           calls = [s \in Slots |->
                       IF s = 1
                       THEN HabitatImpactStep(MetabolicDemandStep(ClampStep(
                                [Frame(TRex, "clamp") EXCEPT !.base_mass = b])))
                       ELSE Idle]
    /\ kept = NoneKept
    /\ PagesLoaded

NextCapacity ==
    \/ CarryingCapacity(1)
    \/ NicheBreadth(1)
    \/ TemporalContext(1)
    \/ ImpactScore(1)
    \/ Categorization(1)
    \/ Return(1)

SpecCapacity == InitCapacity /\ [][NextCapacity]_vars

(***************************************************************************)
(* Lines 76-85 alone, for two calls that have reached line 75 with base    *)
(* masses of a grid: every 5 t, and the values on and next to the floor    *)
(* and the two compression thresholds, one hundredth of a kilogram apart.  *)
(***************************************************************************)
ClampGrid ==
    {500000 * i : i \in 1 .. NumClampSteps}
        \cup {0, 1000}
        \cup {t + d : t \in {5000, 3000000, 5000000, 6000000},
                      d \in {-1, 0, 1, 2, 3, 4, 5, 8}}

InitClamp ==
    /\ \E b1 \in ClampGrid, b2 \in ClampGrid :
           calls = [s \in Slots |->
                       IF s = 1
                       THEN [Frame(TRex, "clamp") EXCEPT !.base_mass = b1]
                       ELSE IF s = 2
                       THEN [Frame(TRex, "clamp") EXCEPT !.base_mass = b2]
                       ELSE Idle]
    /\ kept = NoneKept
    /\ PagesLoaded

NextClamp == Clamp(1) \/ Clamp(2)

SpecClamp == InitClamp /\ [][NextClamp]_vars

(***************************************************************************)
(* Step 7 alone.  It reads six locals and nothing else; they are drawn     *)
(* independently, from values below and above what each cap needs, the     *)
(* demands and ranges of very long specimens included.                     *)
(***************************************************************************)
DemandGrid == {100000000, 1000000000, 2000000000}
RangeGrid == {1000000, 50000000, 80000000, 150000000}
IntensityGrid == {18, 25, 35}
CapacityGrid == {157000, 2050000, 57300000}
BreadthGrid == {18, 20, 22, 24, 28, 35}
ContextGrid == {85, 100, 120}

InitScore ==
    /\ \E md \in DemandGrid, hr \in RangeGrid, ci \in IntensityGrid,
          cc \in CapacityGrid, nb \in BreadthGrid, ec \in ContextGrid :
           calls = [s \in Slots |->
                       IF s = 1
                       THEN [Frame(TRex, "score")
                                EXCEPT !.estimated_mass_kg = 658400,
                                       !.metabolic_demand = md,
                                       !.home_range_factor = hr,
                                       !.competition_intensity = ci,
                                       !.carrying_capacity = cc,
                                       !.niche_breadth = nb,
                                       !.ecological_context = ec]
                       ELSE Idle]
    /\ kept = NoneKept
    /\ PagesLoaded

NextScore == ImpactScore(1) \/ Categorization(1) \/ Return(1)

SpecScore == InitScore /\ [][NextScore]_vars

(***************************************************************************)
(* Properties                                                              *)
(***************************************************************************)
Returned(s) == calls[s].pc = "done"

Tiers ==
    {"Minimal Impact", "Low Impact", "Moderate Impact", "High Impact",
     "Extreme Impact"}

\* the whole function run on its own
predict_dinosaur_impact(a) ==
    ReturnStep(CategorizationStep(ImpactScoreStep(TemporalContextStep(
        NicheBreadthStep(CarryingCapacityStep(HabitatImpactStep(
            MetabolicDemandStep(MassEstimationStep(Frame(a, "mass"))))))))))

\* the estimated_mass field returned for a length, height and body type
ReturnedMass(length_m, height_m, dino_type) ==
    Round(estimated_mass_kg(length_m, height_m, dino_type), 100)

\* C1: every returned score lies in [5, 100] (50 .. 1000 tenths), and so
\* does the unrounded score from which the category is taken.
C1_ScoreInRange ==
    \A s \in Slots :
        /\ Returned(s) => calls[s].result.score \in 50 .. 1000
        /\ calls[s].pc \in {"category", "return", "done"}
               => calls[s].impact_score \in 50000 .. 1000000

\* a call has returned whose competition index ran into its cap of 25
C1_Witness ==
    \E s \in Slots :
        /\ Returned(s)
        /\ calls[s].competition_index = 250000
        /\ calls[s].result.score \in 50 .. 1000

\* C2: every returned estimated_mass is at least 50 kg, and the mass the
\* later steps use is at least 50 kg too.
C2_MassAtLeastFloor ==
    \A s \in Slots :
        /\ Returned(s) => calls[s].result.estimated_mass >= 50
        /\ calls[s].pc \notin {"idle", "mass"}
               => calls[s].estimated_mass_kg >= 5000

\* a call has returned whose base mass was below 50 kg and was floored
C2_Witness ==
    \E s \in Slots :
        /\ Returned(s)
        /\ base_mass(calls[s].length_m, calls[s].height_m, calls[s].dino_type)
               < 5000
        /\ calls[s].result.estimated_mass = 50

\* C3: the category is Minimal below 20, Low from 20 to below 40, Moderate
\* from 40 to below 65, High from 65 to below 85 and Extreme from 85 on;
\* in particular 19.9 is Minimal, 20.0 Low, 39.9 Low, 40.0 Moderate,
\* 64.9 Moderate, 65.0 High, 84.9 High and 85.0 Extreme.
C3_CategoryThresholds ==
    \A s \in Slots :
        calls[s].pc \in {"return", "done"} =>
            LET x == calls[s].impact_score
                c == calls[s].category
            IN  /\ c \in Tiers
                /\ c = "Minimal Impact" <=> x < 200000
                /\ c = "Low Impact" <=> (200000 <= x /\ x < 400000)
                /\ c = "Moderate Impact" <=> (400000 <= x /\ x < 650000)
                /\ c = "High Impact" <=> (650000 <= x /\ x < 850000)
                /\ c = "Extreme Impact" <=> 850000 <= x
                /\ x = 199000 => c = "Minimal Impact"
                /\ x = 200000 => c = "Low Impact"
                /\ x = 399000 => c = "Low Impact"
                /\ x = 400000 => c = "Moderate Impact"
                /\ x = 649000 => c = "Moderate Impact"
                /\ x = 650000 => c = "High Impact"
                /\ x = 849000 => c = "High Impact"
                /\ x = 850000 => c = "Extreme Impact"

\* a score of exactly 20.0 has been categorized as Low Impact
C3_Witness ==
    \E s \in Slots :
        /\ Returned(s)
        /\ calls[s].impact_score = 200000
        /\ calls[s].result.category = "Low Impact"

\* C4: no call ends in an error, every returned result has all five fields
\* set, and a diet, body type or period outside the tables has taken the
\* default constant (1.5, the default mass scaling and niche 2.0, 1.0).
C4_Total ==
    \A s \in Slots :
        LET f == calls[s] IN
        /\ f.pc # "raised"
        /\ Returned(s) =>
            /\ f.result.score > 0
            /\ f.result.category \in Tiers
            /\ f.result.emoji # ""
            /\ f.result.color # ""
            /\ f.result.estimated_mass > 0
            /\ f.diet \notin DOMAIN diet_metabolic_factors =>
                   f.metabolic_demand
                       = MulDiv(Pow(f.estimated_mass_kg, 100, 75, 100), 15, 10)
            /\ f.dino_type \notin DOMAIN mass_scaling =>
                   /\ f.niche_breadth = 20
                   /\ f.estimated_mass_kg =
                          FloorMass(CompressMass(MulDiv(
                              MulFix(Pow(f.length_m * 8, 10000, 260, 1),
                                     Pow(f.height_m, 100, 50, 1)), 25, 100)))
            /\ f.geological_period \notin DOMAIN period_factors =>
                   f.ecological_context = 100

\* a call with a wrongly cased diet, an unlisted body type and a wrongly
\* cased period has returned a complete result
C4_Witness ==
    \E s \in Slots :
        /\ Returned(s)
        /\ calls[s].diet = "Carnivorous"
        /\ calls[s].dino_type = "pterosaur"
        /\ calls[s].geological_period = "late cretaceous"
        /\ calls[s].result.category \in Tiers

C6_CallsIndependent ==
    \A s \in Slots :
        Returned(s)
            => calls[s].result = predict_dinosaur_impact(ArgsOf(calls[s])).result

\* one call has returned while another call, of a different specimen, is
\* between its mass step and its return
C6_Witness ==
    \E s, t \in Slots :
        /\ s # t
        /\ Returned(s)
        /\ calls[t].pc \in {"metabolic", "habitat", "capacity", "niche",
                            "temporal", "score", "category", "return"}
        /\ calls[t].length_m # calls[s].length_m

SameButTimeSpan(a, b) ==
    /\ a.length_m = b.length_m
    /\ a.height_m = b.height_m
    /\ a.diet = b.diet
    /\ a.dino_type = b.dino_type
    /\ a.geological_period = b.geological_period
    /\ <<a.start_time_mya, a.end_time_mya>> # <<b.start_time_mya, b.end_time_mya>>

\* C7: a call whose arguments differ from those of the kept response only
\* in start_time_mya and end_time_mya returns the kept result.
C7_TimeSpanIgnored ==
    \A s \in Slots :
        (Returned(s) /\ SameButTimeSpan(kept.args, ArgsOf(calls[s])))
            => kept.result = calls[s].result

\* a call has returned whose arguments differ from the kept ones in the
\* time span only
C7_Witness ==
    \E s \in Slots :
        /\ Returned(s)
        /\ SameButTimeSpan(kept.args, ArgsOf(calls[s]))
        /\ kept.result.category \in Tiers

C9_MassHasCeiling ==
    \A s \in Slots : Returned(s) => calls[s].result.estimated_mass <= 50000

\* C10 as claimed: length 12, height 4, carnivorous, large theropod, Late
\* Cretaceous returns a mass between 7000 and 9000 kg.
C10_TRexMass ==
    \A s \in Slots :
        (Returned(s) /\ ArgsOf(calls[s]) = TRex) =>
            /\ calls[s].result.estimated_mass >= 7000
            /\ calls[s].result.estimated_mass <= 9000

Brontosaurus ==
    [length_m |-> 2100, height_m |-> 1200, diet |-> "herbivorous",
     dino_type |-> "sauropod", geological_period |-> "Late Jurassic",
     start_time_mya |-> 100, end_time_mya |-> 95]

\* C11 as claimed: length 21, height 12, herbivorous, sauropod, Late
\* Jurassic returns a mass between 15000 and 20000 kg.
C11_BrontosaurusMass ==
    \A s \in Slots :
        (Returned(s) /\ ArgsOf(calls[s]) = Brontosaurus) =>
            /\ calls[s].result.estimated_mass >= 15000
            /\ calls[s].result.estimated_mass <= 20000

\* C12: no division meets a zero divisor: when the carrying capacity is
\* computed the mass is at least 50 kg and mass ** 0.6 is positive, when
\* the reciprocal of the carrying capacity is taken it is positive, and no
\* call ends in ZeroDivisionError.
C12_NoZeroDivisor ==
    \A s \in Slots :
        LET f == calls[s] IN
        /\ f.pc = "capacity" =>
               /\ f.estimated_mass_kg >= 5000
               /\ Pow(f.estimated_mass_kg, 100, 60, 100) > 0
        /\ f.pc \in {"niche", "temporal", "score"} => f.carrying_capacity > 0
        /\ f.pc # "raised"

\* a call whose mass was floored to 50 kg is about to take the reciprocal of
\* its carrying capacity
C12_Witness ==
    \E s \in Slots :
        /\ calls[s].pc = "score"
        /\ calls[s].estimated_mass_kg = 5000
        /\ calls[s].carrying_capacity > 0

\* the base mass of the call in slot s, before compression and floor
BaseMassOf(s) ==
    base_mass(calls[s].length_m, calls[s].height_m, calls[s].dino_type)

\* C13: the mass step applies one compression branch to the base mass b and
\* then the floor: above 50000 kg, 50000 + (b - 50000) * 0.3 and nothing
\* else; above 30000 up to 50000, 30000 + (b - 30000) * 0.6; up to 30000,
\* b itself, or 50 when b is below 50.
C13_ClampBranches ==
    \A s \in Slots :
        calls[s].pc = "metabolic" =>
            LET b == BaseMassOf(s)
                m == calls[s].estimated_mass_kg
            IN  /\ b > 5000000 => m = 5000000 + ((b - 5000000) * 3) \div 10
                /\ (3000000 < b /\ b <= 5000000)
                       => m = 3000000 + ((b - 3000000) * 6) \div 10
                /\ (5000 <= b /\ b <= 3000000) => m = b
                /\ b < 5000 => m = 5000

\* the mass step has compressed a base mass above 50000 kg with the factor
\* 0.3 alone
C13_Witness ==
    \E s \in Slots :
        /\ calls[s].pc = "metabolic"
        /\ BaseMassOf(s) > 5000000
        /\ calls[s].estimated_mass_kg
               = 5000000 + ((BaseMassOf(s) - 5000000) * 3) \div 10

\* C14: the length bonus multiplies the allometric mass by 1.3 for a
\* sauropod longer than 25 m, by 1.1 for a sauropod longer than 20 m up to
\* 25 m, and by nothing for shorter sauropods and for every other body type.
C14_SizeCorrection ==
    \A s \in Slots :
        calls[s].pc = "metabolic" =>
            LET f == calls[s]
                a == AllometricMass(f.length_m, f.height_m, f.dino_type)
                factor == IF f.dino_type = "sauropod" /\ f.length_m > 2500
                          THEN 13
                          ELSE IF f.dino_type = "sauropod" /\ f.length_m > 2000
                          THEN 11
                          ELSE 10
            IN  f.estimated_mass_kg = FloorMass(CompressMass((a * factor) \div 10))

\* the mass step has given a sauropod of more than 25 m the factor 1.3
C14_Witness ==
    \E s \in Slots :
        LET f == calls[s] IN
        /\ f.pc = "metabolic"
        /\ f.dino_type = "sauropod"
        /\ f.length_m > 2500
        /\ f.estimated_mass_kg =
               FloorMass(CompressMass(
                   (AllometricMass(f.length_m, f.height_m, f.dino_type) * 13)
                       \div 10))

\* mass ** 0.75 of the call in slot s (ten-thousandths)
BasalRateOf(s) == Pow(calls[s].estimated_mass_kg, 100, 75, 100)

\* C15: the metabolic demand is the basal rate times 2.8 for carnivorous,
\* 1.0 for herbivorous, 1.8 for omnivorous, 1.5 for unknown and 1.5 for
\* every other diet string, 'Carnivorous' included.
C15_DietFactor ==
    \A s \in Slots :
        calls[s].pc = "habitat" =>
            LET d == calls[s].diet
                factor == CASE d = "carnivorous" -> 28
                            [] d = "herbivorous" -> 10
                            [] d = "omnivorous" -> 18
                            [] d = "unknown" -> 15
                            [] OTHER -> 15
            IN  calls[s].metabolic_demand = MulDiv(BasalRateOf(s), factor, 10)

\* the metabolic step has given the diet 'Carnivorous' the factor 1.5 and
\* not the 2.8 of 'carnivorous'
C15_Witness ==
    \E s \in Slots :
        /\ calls[s].pc = "habitat"
        /\ calls[s].diet = "Carnivorous"
        /\ calls[s].metabolic_demand = MulDiv(BasalRateOf(s), 15, 10)
        /\ calls[s].metabolic_demand # MulDiv(BasalRateOf(s), 28, 10)

\* C16: the habitat step has three branches: carnivorous gives intensity
\* 3.5 and 0.02 * mass ** 0.75, herbivorous 1.8 and 0.008 * mass ** 0.65,
\* every other diet 2.5 and 0.015 * mass ** 0.7; omnivorous is in the third
\* branch although its metabolic factor is its own 1.8.
C16_DietBranches ==
    \A s \in Slots :
        calls[s].pc = "capacity" =>
            LET f == calls[s]
                m == f.estimated_mass_kg
            IN  /\ f.diet = "carnivorous" =>
                       /\ f.competition_intensity = 35
                       /\ f.home_range_factor
                              = MulDiv(Pow(m, 100, 75, 100), 2, 100)
                /\ f.diet = "herbivorous" =>
                       /\ f.competition_intensity = 18
                       /\ f.home_range_factor
                              = MulDiv(Pow(m, 100, 65, 100), 8, 1000)
                /\ f.diet \notin {"carnivorous", "herbivorous"} =>
                       /\ f.competition_intensity = 25
                       /\ f.home_range_factor
                              = MulDiv(Pow(m, 100, 70, 100), 15, 1000)
                /\ f.diet = "omnivorous" =>
                       f.metabolic_demand = MulDiv(BasalRateOf(s), 18, 10)

\* the habitat step has given an omnivore the intensity 2.5 of the third
\* branch
C16_Witness ==
    \E s \in Slots :
        /\ calls[s].pc = "capacity"
        /\ calls[s].diet = "omnivorous"
        /\ calls[s].competition_intensity = 25
        /\ calls[s].metabolic_demand = MulDiv(BasalRateOf(s), 18, 10)

\* C18: the niche breadth is 2.8 for sauropod, 3.5 for large theropod, 2.2
\* for ceratopsian, 1.8 for armoured dinosaur, 2.4 for euornithopod, 2.0
\* for small theropod and 2.0 for every other body type.
C18_NicheBreadth ==
    \A s \in Slots :
        calls[s].pc = "temporal" =>
            LET t == calls[s].dino_type
            IN  calls[s].niche_breadth =
                    CASE t = "sauropod" -> 28
                      [] t = "large theropod" -> 35
                      [] t = "ceratopsian" -> 22
                      [] t = "armoured dinosaur" -> 18
                      [] t = "euornithopod" -> 24
                      [] t = "small theropod" -> 20
                      [] OTHER -> 20

\* the niche step has given an unlisted body type the breadth 2.0
C18_Witness ==
    \E s \in Slots :
        /\ calls[s].pc = "temporal"
        /\ calls[s].dino_type = "pterosaur"
        /\ calls[s].niche_breadth = 20

\* C19: the temporal factor is 1.2 for 'Late Triassic', 1.1 for 'Early
\* Jurassic', 1.0 for 'Mid Jurassic', 0.9 for 'Late Jurassic', 0.95 for
\* 'Early Cretaceous', 0.85 for 'Late Cretaceous' and 1.0 for every other
\* string, 'late cretaceous' included, and the step does not raise.
C19_PeriodFactor ==
    \A s \in Slots :
        /\ calls[s].pc = "temporal" => TemporalContextStep(calls[s]).pc = "score"
        /\ calls[s].pc = "score" =>
            LET p == calls[s].geological_period
            IN  calls[s].ecological_context =
                    CASE p = "Late Triassic" -> 120
                      [] p = "Early Jurassic" -> 110
                      [] p = "Mid Jurassic" -> 100
                      [] p = "Late Jurassic" -> 90
                      [] p = "Early Cretaceous" -> 95
                      [] p = "Late Cretaceous" -> 85
                      [] OTHER -> 100

\* the temporal step has given 'late cretaceous' the neutral factor 1.0
C19_Witness ==
    \E s \in Slots :
        /\ calls[s].pc = "score"
        /\ calls[s].geological_period = "late cretaceous"
        /\ calls[s].ecological_context = 100

\* C17: the numerator of the carrying capacity is 2000 for a mass above
\* 20000 kg, 3000 above 10000 up to 20000, 4000 above 5000 up to 10000,
\* 5000 above 1000 up to 5000 and 6000 up to 1000; a mass exactly on a
\* threshold takes the larger numerator, the numerator never grows with
\* the mass, and the mass it is chosen from is the clamped, floored one.
C17_CapacityBuckets ==
    \A s \in Slots :
        calls[s].pc = "niche" =>
            LET m == calls[s].estimated_mass_kg
                numerator ==
                    CASE m > 2000000 -> 2000
                      [] m > 1000000 /\ m <= 2000000 -> 3000
                      [] m > 500000 /\ m <= 1000000 -> 4000
                      [] m > 100000 /\ m <= 500000 -> 5000
                      [] m <= 100000 -> 6000
            IN  /\ m >= 5000
                /\ \E b \in BaseMassGrid : m = FloorMass(CompressMass(b))
                /\ calls[s].carrying_capacity
                       = DivDec(numerator * 10000, Pow(m, 100, 60, 100), 5)
                /\ \A m2 \in MassGrid :
                       m2 >= m => CapacityNumerator(m2) <= numerator

\* step 4 has given a mass of exactly 10000 kg the numerator 4000
C17_Witness ==
    \E s \in Slots :
        /\ calls[s].pc = "niche"
        /\ calls[s].estimated_mass_kg = 1000000
        /\ calls[s].carrying_capacity
               = DivDec(4000 * 10000, Pow(1000000, 100, 60, 100), 5)
        /\ calls[s].carrying_capacity
               # DivDec(3000 * 10000, Pow(1000000, 100, 60, 100), 5)

C21_TierPresentation ==
    \A s \in Slots :
        Returned(s) =>
            LET r == calls[s].result
                c == r.category
            IN  /\ c \in Tiers
                /\ r.color = CASE c = "Minimal Impact" -> "#00ff88"
                               [] c = "Low Impact" -> "#ffaa00"
                               [] c = "Moderate Impact" -> "#ff6600"
                               [] c = "High Impact" -> "#ff4400"
                               [] c = "Extreme Impact" -> "#ff0000"
                /\ r.emoji = CASE c = "Minimal Impact" -> "green circle"
                               [] c = "Low Impact" -> "yellow circle"
                               [] c = "Moderate Impact" -> "orange circle"
                               [] c = "High Impact" -> "red circle"
                               [] c = "Extreme Impact" -> "skull"
                /\ \A x \in ScoreGrid :
                       LET o == Result(CategorizationStep(
                                    [calls[s] EXCEPT !.impact_score = x]))
                       IN  o.category # c
                               => (o.color # r.color /\ o.emoji # r.emoji)

\* a result of the category High Impact has been returned with its color
\* #ff4400 and its symbol
C21_Witness ==
    \E s \in Slots :
        /\ Returned(s)
        /\ calls[s].result.category = "High Impact"
        /\ calls[s].result.color = "#ff4400"
        /\ calls[s].result.emoji = "red circle"

C23_CategoryMatchesReturnedScore ==
    \A s \in Slots :
        Returned(s) =>
            updateSummaryText(calls[s].result) = calls[s].result.category

\* C24: the niche breadth is at least 1.8 and the period factor at least
\* 0.85, so the stability index lies in [17.5, 20]; hence the score is at
\* least 21, the lower clamp of 5 never takes effect and no result has the
\* category Minimal Impact.
C24_ScoreAtLeast21 ==
    \A s \in Slots :
        LET f == calls[s] IN
        /\ f.pc \in {"category", "return", "done"} =>
               /\ f.niche_breadth >= 18
               /\ f.ecological_context >= 85
               /\ f.stability_index >= 175000
               /\ f.stability_index <= 200000
               /\ ((f.resource_index + f.habitat_index + f.competition_index
                       + f.stability_index) * 12) \div 10 >= 50000
               /\ f.impact_score >= 210000
        /\ f.pc \in {"return", "done"} => f.category # "Minimal Impact"
        /\ f.pc = "done" =>
               (f.result.score >= 210 /\ f.result.category # "Minimal Impact")

\* a result has been returned for a call whose stability index is the
\* smallest possible, 17.5
C24_Witness ==
    \E s \in Slots :
        /\ Returned(s)
        /\ calls[s].stability_index = 175000
        /\ calls[s].niche_breadth = 18
        /\ calls[s].ecological_context = 85
        /\ calls[s].result.score >= 210

VelociraptorForm ==
    [name |-> "Velociraptor", length |-> 200, height |-> 50,
     diet |-> "carnivorous", type |-> "small theropod",
     period |-> "Late Cretaceous"]

\* what the user can put into the form of a fighter
H2HForms == {TRexForm, BrontosaurusForm, VelociraptorForm}

\* fighter1Data and fighter2Data of conductBattle
FighterData(form, start_time, end_time) ==
    [name |-> form.name, length |-> form.length, height |-> form.height,
     diet |-> form.diet, type |-> form.type, period |-> form.period,
     start_time |-> start_time, end_time |-> end_time]

\* the arguments /compare passes to the scorer for one dinosaur
DinoArgs(dino) ==
    [length_m |-> dino.length, height_m |-> dino.height, diet |-> dino.diet,
     dino_type |-> dino.type, geological_period |-> dino.period,
     start_time_mya |-> dino.start_time, end_time_mya |-> dino.end_time]

\* {**dino, **result}
Merged(dino, result) ==
    [name |-> dino.name, length |-> dino.length, height |-> dino.height,
     diet |-> dino.diet, type |-> dino.type, period |-> dino.period,
     start_time |-> dino.start_time, end_time |-> dino.end_time,
     score |-> result.score, category |-> result.category,
     emoji |-> result.emoji, color |-> result.color,
     estimated_mass |-> result.estimated_mass]

\* the winner chosen with >= instead of >
compare_dinosaurs_ge(data) ==
    LET result1 == predict_dinosaur_impact(DinoArgs(data.dino1)).result
        result2 == predict_dinosaur_impact(DinoArgs(data.dino2)).result
    IN  [dino1 |-> Merged(data.dino1, result1),
         dino2 |-> Merged(data.dino2, result2),
         winner |-> IF result1.score >= result2.score THEN "dino1" ELSE "dino2"]

\* the response of /compare to the request body data
compare_dinosaurs(data) ==
    LET result1 == predict_dinosaur_impact(DinoArgs(data.dino1)).result
        result2 == predict_dinosaur_impact(DinoArgs(data.dino2)).result
    IN  [dino1 |-> Merged(data.dino1, result1),
         dino2 |-> Merged(data.dino2, result2),
         winner |-> IF result1.score > result2.score THEN "dino1" ELSE "dino2"]

\* String.prototype.toUpperCase on the names of the forms
toUpperCase(name) ==
    CASE name = "Tyrannosaurus Rex" -> "TYRANNOSAURUS REX"
      [] name = "Brontosaurus" -> "BRONTOSAURUS"
      [] name = "Velociraptor" -> "VELOCIRAPTOR"
      [] OTHER -> name

\* the user changes the form of fighter 1
EditFighter1 ==
    /\ \E form \in H2HForms : h2h' = [h2h EXCEPT !.f1 = form]
    /\ UNCHANGED <<calls, kept, search, maps>>

\* the user changes the form of fighter 2
EditFighter2 ==
    /\ \E form \in H2HForms : h2h' = [h2h EXCEPT !.f2 = form]
    /\ UNCHANGED <<calls, kept, search, maps>>

\* a click on BATTLE: conductBattle up to the await of fetch
BattleClick ==
    /\ ~h2h.disabled
    /\ h2h' = [h2h EXCEPT !.disabled = TRUE,
                          !.request = [dino1 |-> FighterData(h2h.f1, 100, 95),
                                       dino2 |-> FighterData(h2h.f2, 150, 145)]]
    /\ UNCHANGED <<calls, kept, search, maps>>

\* the server handles the /compare request
CompareDinosaurs ==
    /\ h2h.request # NoCompare
    /\ h2h' = [h2h EXCEPT !.request = NoCompare,
                          !.response = compare_dinosaurs(h2h.request)]
    /\ UNCHANGED <<calls, kept, search, maps>>

\* the fetch fails: the catch block alerts, the finally block runs
BattleError ==
    /\ h2h.request # NoCompare
    /\ h2h' = [h2h EXCEPT !.request = NoCompare, !.disabled = FALSE]
    /\ UNCHANGED <<calls, kept, search, maps>>

\* the response arrives: displayBattleResults, then the finally block
DisplayBattleResults ==
    /\ h2h.response # NoCompare
    /\ LET result == h2h.response
           winner == result[result.winner]
       IN  h2h' = [h2h EXCEPT
                      !.response = NoCompare,
                      !.winner_text = toUpperCase(winner.name),
                      !.panel1 = @ \cup (IF result.winner = "dino1"
                                         THEN {"winner"} ELSE {"loser"}),
                      !.panel2 = @ \cup (IF result.winner = "dino1"
                                         THEN {"loser"} ELSE {"winner"}),
                      !.shown = TRUE,
                      !.disabled = FALSE,
                      !.last_winner = result.winner]
    /\ UNCHANGED <<calls, kept, search, maps>>

\* a click on REMATCH, which is inside the results section
RematchClick ==
    /\ h2h.shown
    /\ h2h' = [h2h EXCEPT !.shown = FALSE, !.panel1 = {}, !.panel2 = {}]
    /\ UNCHANGED <<calls, kept, search, maps>>

NextH2H ==
    \/ EditFighter1
    \/ EditFighter2
    \/ BattleClick
    \/ CompareDinosaurs
    \/ BattleError
    \/ DisplayBattleResults
    \/ RematchClick

SpecH2H == Init /\ [][NextH2H]_vars

\* C27: the winner of /compare is 'dino1' exactly when the returned score
\* of dino1 is strictly greater than that of dino2 and 'dino2' otherwise,
\* so the score of the named winner is never lower than the other score;
\* on equal scores the winner is 'dino2', and it is 'dino2' again when the
\* two dinosaurs are sent in the other order.
C27_Winner ==
    h2h.response # NoCompare =>
        LET r == h2h.response
            swapped == compare_dinosaurs(
                           [dino1 |-> FighterData(r.dino2, r.dino1.start_time,
                                                  r.dino1.end_time),
                            dino2 |-> FighterData(r.dino1, r.dino2.start_time,
                                                  r.dino2.end_time)])
        IN  /\ r.winner \in {"dino1", "dino2"}
            /\ r.winner = "dino1" <=> r.dino1.score > r.dino2.score
            /\ r.winner = "dino1" => r.dino1.score >= r.dino2.score
            /\ r.winner = "dino2" => r.dino2.score >= r.dino1.score
            /\ r.dino1.score = r.dino2.score
                   => (r.winner = "dino2" /\ swapped.winner = "dino2")
            /\ r.dino1.score # r.dino2.score => swapped.winner # r.winner

\* /compare has answered for two different dinosaurs with equal scores and
\* has named dino2 the winner
C27_Witness ==
    /\ h2h.response # NoCompare
    /\ h2h.response.dino1.name = "Tyrannosaurus Rex"
    /\ h2h.response.dino2.name = "Brontosaurus"
    /\ h2h.response.dino1.score = h2h.response.dino2.score
    /\ h2h.response.winner = "dino2"

\* C28: whenever the results are shown, exactly one fighter panel has the
\* class winner and the other the class loser, no panel has both, and the
\* panel marked winner is the one of the winner of the most recent battle.
C28_OneWinnerPanel ==
    h2h.shown =>
        /\ h2h.last_winner = "dino1"
               => (h2h.panel1 = {"winner"} /\ h2h.panel2 = {"loser"})
        /\ h2h.last_winner = "dino2"
               => (h2h.panel2 = {"winner"} /\ h2h.panel1 = {"loser"})
        /\ h2h.panel1 # {"winner", "loser"}
        /\ h2h.panel2 # {"winner", "loser"}

(***************************************************************************)
(* The main page: searches and predictions                                 *)
(***************************************************************************)
\* what the user can type into the name field and the search input
NameInputs == {"Tyrannosaurus Rex", "Brontosaurus", "T ", ""}

\* String.prototype.trim on those values
Trim(value) == IF value = "T " THEN "T" ELSE value

\* value.length of a trimmed value
Length(value) ==
    CASE value = "" -> 0
      [] value = "T" -> 1
      [] value = "Brontosaurus" -> 12
      [] value = "Tyrannosaurus Rex" -> 17

\* the answers /dinosaur-info can give for a name: the summary Wikipedia
\* has under its own title, or the entry of the fallback table when the
\* request to Wikipedia fails
get_dinosaur_info(dino_name) ==
    {[name |-> IF dino_name = "Tyrannosaurus Rex" THEN "Tyrannosaurus"
               ELSE dino_name,
      source |-> "wikipedia"],
     [name |-> dino_name,
      source |-> IF dino_name \in {"Tyrannosaurus Rex", "Brontosaurus"}
                 THEN "database" ELSE "fallback"]}

\* searchDinosaurInfo up to the await of fetch, on the page p
searchDinosaurInfo(p) ==
    LET dinoName == Trim(p.input)
    IN  IF dinoName = "" THEN p
        ELSE [p EXCEPT !.disabled = TRUE,
                       !.panel = [kind |-> "searching", query |-> dinoName,
                                  name |-> dinoName],
                       !.inflight = @ \cup {[id |-> p.issued + 1,
                                             name |-> dinoName]},
                       !.issued = @ + 1,
                       !.last_name = dinoName]

\* the user types into the search input
TypeSearch ==
    /\ \E value \in NameInputs : search' = [search EXCEPT !.input = value]
    /\ UNCHANGED <<calls, kept, h2h, maps>>

\* the user types into the name field; the input handler copies a name
\* of more than two characters into the search input
TypeName ==
    /\ \E value \in NameInputs :
           search' = [search EXCEPT
                         !.name = value,
                         !.input = IF Length(Trim(value)) > 2
                                   THEN Trim(value) ELSE @]
    /\ UNCHANGED <<calls, kept, h2h, maps>>

\* a click on the search button
SearchClick ==
    /\ ~search.disabled
    /\ search.issued < MaxSearches
    /\ search' = searchDinosaurInfo(search)
    /\ UNCHANGED <<calls, kept, h2h, maps>>

\* the Enter key in the search input
SearchEnter ==
    /\ search.issued < MaxSearches
    /\ search' = searchDinosaurInfo(search)
    /\ UNCHANGED <<calls, kept, h2h, maps>>

\* the timer set at DOMContentLoaded fires
AutoSearch ==
    /\ search.load_timer
    /\ search.issued < MaxSearches
    /\ search' = searchDinosaurInfo(
                     [search EXCEPT !.input = "Tyrannosaurus Rex",
                                    !.load_timer = FALSE])
    /\ UNCHANGED <<calls, kept, h2h, maps>>

\* the form is submitted: the handler up to the await of fetch
PredictSubmit ==
    /\ ~search.predicting
    /\ search.predictions < MaxPredictions
    /\ search' = [search EXCEPT !.predicting = TRUE]
    /\ UNCHANGED <<calls, kept, h2h, maps>>

\* the /predict response arrives: the results panel, the summary text, the
\* counter, the timer for a search of the name, then the finally block
PredictRespond ==
    /\ search.predicting
    /\ LET result == predict_dinosaur_impact(TRex).result
           named == Trim(search.name) # ""
       IN  search' = [search EXCEPT
                         !.predicting = FALSE,
                         !.prediction = result,
                         !.summary = updateSummaryText(result),
                         !.predictions = @ + 1,
                         !.input = IF named THEN Trim(search.name) ELSE @,
                         !.predict_timers = IF named THEN @ + 1 ELSE @]
    /\ UNCHANGED <<calls, kept, h2h, maps>>

\* a timer set after a prediction fires
PredictTimer ==
    /\ search.predict_timers > 0
    /\ search.issued < MaxSearches
    /\ search' = searchDinosaurInfo(
                     [search EXCEPT !.predict_timers = @ - 1])
    /\ UNCHANGED <<calls, kept, h2h, maps>>

\* the response of one of the requests under way arrives:
\* displayDinosaurInfo, then the finally block
SearchRespond ==
    /\ \E r \in search.inflight : \E info \in get_dinosaur_info(r.name) :
           search' = [search EXCEPT
                         !.inflight = @ \ {r},
                         !.panel = [kind |-> "info", query |-> r.name,
                                    name |-> info.name],
                         !.disabled = FALSE]
    /\ UNCHANGED <<calls, kept, h2h, maps>>

\* one of the requests under way fails: the catch block, then the finally
\* block
SearchError ==
    /\ \E r \in search.inflight :
           search' = [search EXCEPT
                         !.inflight = @ \ {r},
                         !.panel = [kind |-> "error", query |-> r.name,
                                    name |-> ""],
                         !.disabled = FALSE]
    /\ UNCHANGED <<calls, kept, h2h, maps>>

NextSearch ==
    \/ TypeSearch
    \/ TypeName
    \/ SearchClick
    \/ SearchEnter
    \/ AutoSearch
    \/ PredictSubmit
    \/ PredictRespond
    \/ PredictTimer
    \/ SearchRespond
    \/ SearchError

SpecSearch == Init /\ [][NextSearch]_vars

\* C29: once every search request has been answered, the info panel shows
\* the result of the search that was sent last, and the search button is
\* never enabled while a search request is still under way.
C29_LastSearchShown ==
    /\ (search.inflight = {} /\ search.issued > 0)
           => (/\ search.panel.kind \in {"info", "error"}
               /\ search.panel.query = search.last_name)
    /\ search.inflight # {} => search.disabled

\* ---- /maps/api/country-fossil-counts -------------------------------------
\* Names are sequences of one-character strings, so that strip, lower and the
\* substring test of the route act on their characters.

\* values of the lived_in column of the dataset
LivedInValues ==
    { <<"N", "i", "g", "e", "r", " ">>,
      <<"N", "i", "g", "e", "r", "i", "a">>,
      <<"C", "h", "a", "d">> }

\* properties of the features of world_countries.geojson: three named
\* countries, one with an empty ADMIN and one without ADMIN
FeatureProperties ==
    { [ADMIN |-> <<"N", "i", "g", "e", "r">>],
      [ADMIN |-> <<"N", "i", "g", "e", "r", "i", "a">>],
      [ADMIN |-> <<"C", "h", "a", "d">>],
      [ADMIN |-> <<>>],
      [ISO_A3 |-> "-99"] }

\* the filtered dataset: at most MaxRecords records
Datasets == UNION {[1..n -> LivedInValues] : n \in 0..MaxRecords}

\* the feature list: at most MaxFeatures features, no feature twice
FeatureLists ==
    {fs \in UNION {[1..n -> FeatureProperties] : n \in 0..MaxFeatures} :
        \A i, j \in 1..Len(fs) : fs[i] = fs[j] => i = j}

\* str.strip(): drop the blanks at both ends
RECURSIVE strip(_)
strip(s) ==
    IF s = <<>> THEN s
    ELSE IF Head(s) = " " THEN strip(Tail(s))
    ELSE IF s[Len(s)] = " " THEN strip(SubSeq(s, 1, Len(s) - 1))
    ELSE s

\* str.lower() on the characters in use
lower(s) ==
    [i \in 1..Len(s) |->
        CASE s[i] = "N" -> "n"
          [] s[i] = "C" -> "c"
          [] OTHER -> s[i]]

\* Python's `a in b` on strings: a occurs in b ('' occurs in every string)
In(a, b) ==
    \E i \in 0..(Len(b) - Len(a)) : SubSeq(b, i + 1, i + Len(a)) = a

\* line 55: df['lived_in'] stripped and lowered, then value_counts().to_dict()
location_counts(df) ==
    LET location(i) == lower(strip(df[i]))
    IN  [loc \in {location(i) : i \in 1..Len(df)} |->
            Cardinality({i \in 1..Len(df) : location(i) = loc})]

RECURSIVE SumCounts(_, _)
SumCounts(lc, locs) ==
    IF locs = {} THEN 0
    ELSE LET loc == CHOOSE l \in locs : TRUE
         IN  lc[loc] + SumCounts(lc, locs \ {loc})

\* lines 67-76: the count of one feature
FeatureCount(properties, lc) ==
    LET country_name ==
            lower(strip(IF "ADMIN" \in DOMAIN properties
                        THEN properties.ADMIN ELSE <<>>))
        exact == IF country_name \in DOMAIN lc THEN lc[country_name] ELSE 0
        partial == {loc \in DOMAIN lc :
                        In(country_name, loc) \/ In(loc, country_name)}
    IN  IF exact = 0 THEN SumCounts(lc, partial) ELSE exact

\* lines 20-64: read and filter the dataset, count the locations, load the
\* features
MapsRequest ==
    /\ maps.pc = "idle"
    /\ \E df \in Datasets, fs \in FeatureLists :
           maps' = [pc |-> "features", lived_in |-> df, features |-> fs,
                    count |-> <<>>, total_fossils |-> 0,
                    countries_with_data |-> 0, metadata |-> NoMetadata]
    /\ UNCHANGED <<calls, kept, h2h, search>>

\* lines 66-84: one pass of the loop over the features
MapsFeature ==
    /\ maps.pc = "features"
    /\ Len(maps.count) < Len(maps.features)
    /\ LET feature == maps.features[Len(maps.count) + 1]
           count == FeatureCount(feature, location_counts(maps.lived_in))
       IN  maps' = [maps EXCEPT
                        !.count = Append(@, count),
                        !.total_fossils = IF count > 0 THEN @ + count ELSE @,
                        !.countries_with_data =
                            IF count > 0 THEN @ + 1 ELSE @]
    /\ UNCHANGED <<calls, kept, h2h, search>>

\* lines 86-96: after the loop, add the metadata
MapsRespond ==
    /\ maps.pc = "features"
    /\ Len(maps.count) = Len(maps.features)
    /\ maps' = [maps EXCEPT
                    !.pc = "metadata",
                    !.metadata =
                        [sent |-> TRUE,
                         total_fossils |-> maps.total_fossils,
                         countries_with_data |-> maps.countries_with_data]]
    /\ UNCHANGED <<calls, kept, h2h, search>>

\* lines 98-99: return the answer; the locals of the request are dropped
MapsReturn ==
    /\ maps.pc = "metadata"
    /\ maps' = MapsIdle
    /\ UNCHANGED <<calls, kept, h2h, search>>

NextMaps ==
    \/ MapsRequest
    \/ MapsFeature
    \/ MapsRespond
    \/ MapsReturn

SpecMaps == Init /\ [][NextMaps]_vars

\* C30: every record that passed the filters is counted toward at most one
\* country feature, so in every answer total_fossils is at most the number of
\* filtered records, and countries_with_data is the number of features whose
\* count is greater than 0.
C30_EachRecordCountedOnce ==
    maps.metadata.sent =>
        /\ maps.metadata.total_fossils <= Len(maps.lived_in)
        /\ maps.metadata.countries_with_data =
               Cardinality({i \in 1..Len(maps.count) : maps.count[i] > 0})

=============================================================================
